---- MODULE Spec2Model ----
(***************************************************************************)
(* Model of the todo CLI's batch synchronisation command                   *)
(* (src/src/cmd/syncTodos.ts) together with the services it drives:        *)
(* the record store (DatabaseService.saveTodo / getTodoById), the remote   *)
(* fetcher (TodoService.getTodoById) and the progress reporter             *)
(* (ProgressBarService).                                                   *)
(*                                                                         *)
(* One CLI invocation is modelled at a time.  Every item of the id list is *)
(* a fiber of Effect.forEach; a fiber may be descheduled at every          *)
(* `yield*`, so each `yield*` of syncTodo / saveTodo / updateProgress is   *)
(* one action, while plain JavaScript between two `yield*` is atomic.      *)
(*                                                                         *)
(* Further specifications share the state: StoreSpec, the operations of    *)
(* DatabaseService (src/src/cmd/clearTodos.ts) called one at a time;       *)
(* ParseSpec, the decoding of a single concurrency value; FetchSpec, one   *)
(* call of TodoService.getTodoById through the retrying HTTP client;       *)
(* RenderSpec, createSyncProgressMessage applied to one pair; and          *)
(* LiveSpec, one sync invocation under a fair runtime.                     *)
(***************************************************************************)
EXTENDS Integers, Sequences, FiniteSets, TLC

(***************************************************************************)
(* Bounds of the model.                                                    *)
(***************************************************************************)
\* longest id list given on the command line
MaxIds == 3

\* todo ids that may be given on the command line
IdSet == {1, 2}

\* the id list of length n: the ids 1, 2, 1, 2, ... so that from length 3 on
\* an id occurs twice
IdList(n) == [i \in 1..n |-> IF i % 2 = 1 THEN 1 ELSE 2]

\* the id lists given on the command line
IdLists == {IdList(n) : n \in 0..MaxIds} \cup {<<2>>, <<1, 1>>}

(***************************************************************************)
(* Concurrency tokens.  A token is the text given to --concurrency, as a   *)
(* sequence of characters.                                                 *)
(***************************************************************************)
UnboundedToken == <<"u", "n", "b", "o", "u", "n", "d", "e", "d">>

\* "no --concurrency option given": Options.withDefault(1) applies
NoToken == <<"<", "a", "b", "s", "e", "n", "t", ">">>

ValidTokens ==
  { <<"1">>, <<"2">>, <<"3">>, UnboundedToken }

\* zero, negative, non-integer, empty, blank and non-numeric tokens
InvalidTokens ==
  { <<"0">>, <<"-", "1">>, <<"1", ".", "5">>, <<>>, <<" ">>,
    <<"a", "b", "c">>, <<"N", "a", "N">>,
    <<"I", "n", "f", "i", "n", "i", "t", "y">>,
    <<"u", "n", "b", "o", "u", "n", "d">> }

\* other spellings of a positive integer that JavaScript's Number() reads
LenientTokens == { <<" ", "2">>, <<"2", ".", "0">> }

Tokens == ValidTokens \cup InvalidTokens \cup LenientTokens

IsDigit(c) == c \in {"0", "1", "2", "3", "4", "5", "6", "7", "8", "9"}

DigitVal(c) ==
  CASE c = "0" -> 0 [] c = "1" -> 1 [] c = "2" -> 2 [] c = "3" -> 3
    [] c = "4" -> 4 [] c = "5" -> 5 [] c = "6" -> 6 [] c = "7" -> 7
    [] c = "8" -> 8 [] c = "9" -> 9

AllDigits(s) == \A i \in 1..Len(s) : IsDigit(s[i])

\* a reading of the digits with the least significant digit first
RECURSIVE DigitsValueLeastFirst(_)
DigitsValueLeastFirst(s) ==
  IF s = <<>> THEN 0
  ELSE 10 * DigitsValueLeastFirst(Tail(s)) + DigitVal(s[1])

\* the value of a string of decimal digits
RECURSIVE DigitsValue(_)
DigitsValue(s) ==
  IF s = <<>> THEN 0
  ELSE 10 * DigitsValue(SubSeq(s, 1, Len(s) - 1)) + DigitVal(s[Len(s)])

RECURSIVE TrimLeft(_)
TrimLeft(s) ==
  IF s # <<>> /\ s[1] = " " THEN TrimLeft(Tail(s)) ELSE s

RECURSIVE TrimRight(_)
TrimRight(s) ==
  IF s # <<>> /\ s[Len(s)] = " " THEN TrimRight(SubSeq(s, 1, Len(s) - 1))
  ELSE s

Trim(s) == TrimRight(TrimLeft(s))

\* a parsed number: NaN, an infinity, or sign * (whole + fraction)
NaNValue == [nan |-> TRUE, finite |-> FALSE, neg |-> FALSE, whole |-> 0,
             fracZero |-> TRUE]

InfValue(neg) == [nan |-> FALSE, finite |-> FALSE, neg |-> neg, whole |-> 0,
                  fracZero |-> TRUE]

FinValue(neg, whole, fracZero) ==
  [nan |-> FALSE, finite |-> TRUE, neg |-> neg, whole |-> whole,
   fracZero |-> fracZero]

InfinityLit == <<"I", "n", "f", "i", "n", "i", "t", "y">>

\* position of the first "." of s, or 0
DotPos(s) ==
  IF \E i \in 1..Len(s) : s[i] = "."
  THEN CHOOSE i \in 1..Len(s) : s[i] = "." /\ \A j \in 1..(i - 1) : s[j] # "."
  ELSE 0

Max(a, b) == IF a >= b THEN a ELSE b

AllZeros(s) == \A i \in 1..Len(s) : s[i] = "0"

\* the digits of a digit string, as numbers
Digits(s) == [i \in 1..Len(s) |-> DigitVal(s[i])]

\* the first n digits of the fraction 0.d, padded with zeros
Fit(d, n) == [i \in 1..n |-> IF i <= Len(d) THEN d[i] ELSE 0]

\* d < e for two fractions written with the same number of digits
DigitsLess(d, e) ==
  \E i \in 1..Len(d) : d[i] < e[i] /\ \A j \in 1..(i - 1) : d[j] = e[j]

NinesComplement(d) == [i \in 1..Len(d) |-> 9 - d[i]]

RECURSIVE Power(_, _)
Power(b, n) == IF n = 0 THEN 1 ELSE b * Power(b, n - 1)

\* floor(log2(n)) for n >= 1
RECURSIVE Log2(_)
Log2(n) == IF n <= 1 THEN 0 ELSE 1 + Log2(n \div 2)

\* the digits of half the fraction 0.d (one digit more): a digit takes ten
\* times the remainder its left neighbour leaves
HalveDigits(d) ==
  <<>> \o [i \in 1..(Len(d) + 1) |->
            ((IF i > 1 THEN 10 * (d[i - 1] % 2) ELSE 0)
               + (IF i <= Len(d) THEN d[i] ELSE 0)) \div 2]

\* the digits of twice the fraction 0.d, for 0.d below one half: a digit
\* takes the carry of its right neighbour
DoubleDigits(d) ==
  <<>> \o [i \in 1..Len(d) |->
            (2 * d[i] + (IF i < Len(d) /\ d[i + 1] >= 5 THEN 1 ELSE 0)) % 10]

\* the digits of 0.d * 2^k
RECURSIVE Doubled(_, _)
Doubled(d, k) == IF k = 0 THEN d ELSE Doubled(DoubleDigits(d), k - 1)

\* the digits of 2^(-53) after the decimal point: half the distance between
\* 1 and the next JavaScript number (IEEE 754 binary64, 53 significant bits)
HalfUlpOfOne ==
  << 0, 0, 0, 0, 0, 0, 0, 0, 0, 0, 0, 0, 0, 0, 0, 1, 1, 1, 0, 2, 2, 3, 0,
     2, 4, 6, 2, 5, 1, 5, 6, 5, 4, 0, 4, 2, 3, 6, 3, 1, 6, 6, 8, 0, 9, 0,
     8, 2, 0, 3, 1, 2, 5 >>

\* half the distance between neighbouring numbers just above whole, and for
\* whole = 0 just below 1
HalfUlp(whole) ==
  IF whole = 0 THEN HalveDigits(HalfUlpOfOne)
  ELSE Doubled(HalfUlpOfOne, Log2(whole))

\* Number() yields the binary64 value nearest to whole + 0.fp.  That value
\* is the integer whole ("down") when the fraction is at most half the
\* distance between neighbouring numbers at whole, the integer whole + 1
\* ("up") when the fraction is that close to 1, and no integer otherwise.
RoundsTo(whole, fp) ==
  IF AllZeros(fp) THEN "down"
  ELSE LET f == Digits(fp)
           h == HalfUlp(whole)
           n == Max(Len(f), Len(h))
       IN IF whole > 0 /\ ~DigitsLess(Fit(h, n), Fit(f, n)) THEN "down"
          ELSE IF DigitsLess(NinesComplement(f), Fit(h, Len(f))) THEN "up"
          ELSE "none"

\* JavaScript Number(s) on an unsigned decimal literal (digits, optional
\* fraction); anything else is NaN.  Literals with an exponent or a radix
\* prefix are not among the inputs of this model.
UnsignedNumber(neg, s) ==
  IF s = InfinityLit THEN InfValue(neg)
  ELSE LET d  == DotPos(s)
           ip == IF d = 0 THEN s ELSE SubSeq(s, 1, d - 1)
           fp == IF d = 0 THEN <<>> ELSE SubSeq(s, d + 1, Len(s))
       IN IF AllDigits(ip) /\ AllDigits(fp) /\ Len(ip) + Len(fp) >= 1
          THEN LET r == RoundsTo(DigitsValue(ip), fp)
               IN FinValue(neg,
                           IF r = "up" THEN DigitsValue(ip) + 1
                           ELSE DigitsValue(ip),
                           r # "none")
          ELSE NaNValue

\* JavaScript Number(s): surrounding white space is dropped, the empty
\* string is 0, an optional sign precedes the literal
JsNumber(s) ==
  LET t == Trim(s)
  IN IF t = <<>> THEN FinValue(FALSE, 0, TRUE)
     ELSE IF t[1] = "-" THEN UnsignedNumber(TRUE, Tail(t))
     ELSE IF t[1] = "+" THEN UnsignedNumber(FALSE, Tail(t))
     ELSE UnsignedNumber(FALSE, t)

\* Schema.NumberFromString: "NaN" and the infinities decode to themselves,
\* a blank string and anything Number() turns into NaN are rejected
NumberFromString(s) ==
  IF s = <<"N", "a", "N">> THEN [ok |-> TRUE, value |-> NaNValue]
  ELSE IF s = InfinityLit THEN [ok |-> TRUE, value |-> InfValue(FALSE)]
  ELSE IF s = <<"-">> \o InfinityLit THEN [ok |-> TRUE, value |-> InfValue(TRUE)]
  ELSE IF Trim(s) = <<>> THEN [ok |-> FALSE, value |-> NaNValue]
  ELSE LET n == JsNumber(s)
       IN [ok |-> ~n.nan, value |-> n]

\* a schema that admits zero: Schema.nonNegative() in place of positive()
NonNegativeInt(v) == v.finite /\ v.fracZero /\ (~v.neg \/ v.whole = 0)

\* Schema.Int.pipe(Schema.positive())
PositiveInt(v) == v.finite /\ v.fracZero /\ ~v.neg /\ v.whole > 0

Unbounded == [kind |-> "unbounded", n |-> 0]

Bounded(n) == [kind |-> "number", n |-> n]

Invalid == [kind |-> "invalid", n |-> 0]

\* the decoded concurrency option, or Invalid when the schema rejects it
ConcurrencySchema(tok) ==
  IF tok = UnboundedToken THEN Unbounded
  ELSE LET r == NumberFromString(tok)
       IN IF r.ok /\ PositiveInt(r.value) THEN Bounded(r.value.whole)
          ELSE Invalid

\* an option whose default is "unbounded"
ConcurrencyOptionDefaultUnbounded(tok) ==
  IF tok = NoToken THEN Unbounded ELSE ConcurrencySchema(tok)

\* Options.withSchema(ConcurrencySchema), Options.withDefault(1)
ConcurrencyOption(tok) ==
  IF tok = NoToken THEN Bounded(1) ELSE ConcurrencySchema(tok)


(***************************************************************************)
(* Domain values.                                                          *)
(***************************************************************************)
\* JSON payloads the remote API may answer with for a todo id
RemotePayloads(id) ==
  { [userId |-> 1, id |-> id, title |-> <<"a">>, completed |-> FALSE],
    [userId |-> 2, id |-> id, title |-> <<"b">>, completed |-> TRUE] }

\* TodoTitle: Schema.NonEmptyString.pipe(Schema.maxLength(255))
MaxTitleLength == 255

\* a title schema for titles of less than 255 characters
TodoTitleLessThan(t) == Len(t) >= 1 /\ Len(t) < MaxTitleLength

TodoTitle(t) == Len(t) >= 1 /\ Len(t) <= MaxTitleLength

\* CompletedField: the boolean of the encoded side becomes a status string
CompletedField(b) == IF b THEN "completed" ELSE "pending"

\* Schema.decodeUnknown(Todo): the decoded Todo carries the status string
DecodeTodo(data) ==
  [ok   |-> TodoTitle(data.title),
   todo |-> [userId |-> data.userId, id |-> data.id, title |-> data.title,
             completed |-> CompletedField(data.completed)]]

NoTodo == [userId |-> 0, id |-> 0, title |-> <<>>, completed |-> ""]

\* JavaScript truthiness of a string: only the empty string is falsy
TruthyString(s) == s # ""

\* tagged errors: the tag, the id and the message of the wrapped error
NoError == [tag |-> "none", id |-> 0, message |-> ""]

GetTodoByIdError(id) ==
  [tag |-> "GetTodoByIdError", id |-> id, message |-> "Failed to fetch todo"]

DatabaseError(id, message) ==
  [tag |-> "DatabaseError", id |-> id, message |-> message]

\* createTodo's argument: completed is optional, <<>> when it is left out
NoData == [userId |-> 0, title |-> <<>>, completed |-> <<>>]

\* a call made on a service: the operation with its argument (an id for
\* getTodoById, a Todo for saveTodo, the data for createTodo, the input for
\* the decoding of a concurrency value)
NoInput == [type |-> "undefined", text |-> <<>>, n |-> 0]

NoCall == [op |-> "none", id |-> 0, todo |-> NoTodo, data |-> NoData,
           input |-> NoInput]

\* what a call returned: the tag "ok" or the tag of the error with the id
\* it carries, its message and the error it wraps, and the Todo, the list of
\* Todos or the decoded concurrency value
NoResult == [tag |-> "none", id |-> 0, message |-> "", cause |-> "",
             todo |-> NoTodo, list |-> <<>>, value |-> Invalid]

\* the HTTP client at rest: no request made, no retry scheduled; status is
\* the outcome of the last request, attempt the number of retries scheduled,
\* elapsed the milliseconds since the schedule's first step, wait the delay
\* of the retry scheduled last
NoHttp == [state |-> "idle", status |-> "none", attempt |-> 0, elapsed |-> 0,
           wait |-> 0, fault |-> "none"]

(***************************************************************************)
(* Progress reporter.                                                      *)
(***************************************************************************)
barWidth == 30

\* JavaScript numbers are IEEE 754 binary64.  A positive number is written
\* sig * 2^(exp - 52) with a significand of 53 bits, kept as five limbs of
\* 13 bits below the leading one: sig = <<1, l1, l2, l3, l4>>.
Limb == 8192

Zero == [sig |-> <<0, 0, 0, 0, 0>>, exp |-> 0]

\* the limbs with every carry moved up; the first limb takes what is left
\* (the limbs are taken once, as m)
Carry(l) ==
  CHOOSE r \in
    { LET v4 == m[5]
          v3 == m[4] + v4 \div Limb
          v2 == m[3] + v3 \div Limb
          v1 == m[2] + v2 \div Limb
          v0 == m[1] + v1 \div Limb
      IN <<v0, v1 % Limb, v2 % Limb, v3 % Limb, v4 % Limb>> : m \in {l} } :
    TRUE

\* the limbs divided by 2^s, s <= 13, the bits shifted out dropped
ShiftRight(l, s) ==
  CHOOSE r \in
    { [i \in 1..5 |->
         IF i = 1 THEN m[1] \div b
         ELSE ((m[i - 1] % b) * Limb + m[i]) \div b] :
        m \in {l}, b \in {Power(2, s)} } : TRUE

\* a significand that reached 2^53 by rounding up is 2^52 with the next
\* exponent
Normal(l, e) ==
  CHOOSE r \in
    { IF m[1] = 2 THEN [sig |-> <<1, 0, 0, 0, 0>>, exp |-> e + 1]
      ELSE [sig |-> m, exp |-> e] : m \in {l} } : TRUE

\* c / t for integers c >= 0 and t > 0: the quotient rounded to the nearest
\* 53-bit significand, ties to even
Divide(c, t) ==
  IF c = 0 THEN Zero
  ELSE LET up  == IF c >= t THEN Log2(c \div t) ELSE 0
           n   == IF c >= t THEN 0
                  ELSE CHOOSE k \in 0..30 :
                         /\ c * Power(2, k) >= t
                         /\ \A j \in 0..(k - 1) : c * Power(2, j) < t
           den == t * Power(2, up)
           r0  == c * Power(2, n) - den
           r1  == (r0 * Limb) % den
           r2  == (r1 * Limb) % den
           r3  == (r2 * Limb) % den
           r4  == (r3 * Limb) % den
           d4  == (r3 * Limb) \div den
           inc == IF 2 * r4 > den \/ (2 * r4 = den /\ d4 % 2 = 1) THEN 1
                  ELSE 0
       IN Normal(Carry(<<1, (r0 * Limb) \div den, (r1 * Limb) \div den,
                         (r2 * Limb) \div den, d4 + inc>>), up - n)

\* x * k for a small positive integer k: the exact product rounded to the
\* nearest 53-bit significand, ties to even (the product is taken once, as
\* p, and so is its shifted significand, as q)
Multiply(x, k) ==
  CHOOSE r \in
    { IF p[1] = 0 THEN Zero
      ELSE CHOOSE y \in
             { LET rem  == p[5] % Power(2, Log2(p[1]))
                   half == Power(2, Log2(p[1])) \div 2
                   inc  == IF Log2(p[1]) > 0 /\
                              (rem > half \/ (rem = half /\ q[5] % 2 = 1))
                           THEN 1 ELSE 0
               IN Normal(Carry([q EXCEPT ![5] = @ + inc]), e + Log2(p[1])) :
                 q \in {ShiftRight(p, Log2(p[1]))} } : TRUE :
        p \in {Carry([i \in 1..5 |-> x.sig[i] * k])}, e \in {x.exp} } : TRUE

\* Math.round of a non-negative number below 4096: floor(x + 0.5)
MathRound(x) ==
  CHOOSE r \in
    { IF y = Zero \/ y.exp < -1 THEN 0
      ELSE IF y.exp = -1 THEN 1
      ELSE ((Limb + y.sig[2]) \div Power(2, 12 - y.exp) + 1) \div 2 :
        y \in {x} } : TRUE

\* how a percentage of NaN is written here
NaNPercentage == -1

\* the text of one progress line; for total = 0 the quotient 0/0 is NaN,
\* String.repeat(NaN) is the empty string and the percentage prints as NaN
createSyncProgressMessage(c, t) ==
  IF t = 0
  THEN [kind |-> "bar", completed |-> c, total |-> t, filledWidth |-> 0,
        emptyWidth |-> 0, percentage |-> NaNPercentage]
  ELSE [kind |-> "bar", completed |-> c, total |-> t,
        filledWidth |-> MathRound(Multiply(Divide(c, t), barWidth)),
        emptyWidth |-> barWidth - MathRound(Multiply(Divide(c, t), barWidth)),
        percentage |-> MathRound(Multiply(Divide(c, t), 100))]

\* what terminal.display / Console.log put on the terminal
Display(msg, cr) == [w |-> "display", cr |-> cr, msg |-> msg]

NewLine == [w |-> "newline", cr |-> FALSE, msg |-> [kind |-> "nl"]]

Log(text, n) == [w |-> "log", cr |-> FALSE, msg |-> [kind |-> text, n |-> n]]

(***************************************************************************)
(* State.                                                                  *)
(***************************************************************************)
VARIABLES
  cmd,          \* position of the sync command: idle, forEach, or how it ended
  token,        \* the --concurrency text of the current invocation
  ids,          \* the id list of the current invocation
  concurrency,  \* the decoded concurrency option
  completed,    \* let completed = 0
  total,        \* const total = ids.length
  pc,           \* position of each item's syncTodo fiber
  apiTodo,      \* per item: the Todo TodoService.getTodoById returned
  saveArg,      \* per item: the Todo handed to DatabaseService.saveTodo
  exists,       \* per item: saveTodo's existingRows[0].count > 0
  shown,        \* per item: the completed value handed to updateProgress
  fetchCalls,   \* per item: number of TodoService.getTodoById calls
  upsertCalls,  \* per item: number of DatabaseService.saveTodo calls
  failure,      \* the first error of the forEach, or NoError
  todos,        \* the rows of table todos
  out,          \* what was written to the terminal, in order
  seq,          \* sqlite_sequence of table todos: the largest id ever used
  calls,        \* number of calls made on the services one at a time
  lastCall,     \* the last such call: the operation and its argument
  lastResult,   \* what the last such call returned
  http          \* the retrying HTTP client of TodoService during one call

vars == <<cmd, token, ids, concurrency, completed, total, pc, apiTodo, saveArg,
          exists, shown, fetchCalls, upsertCalls, failure, todos, out, seq,
          calls, lastCall, lastResult, http>>

Items == 1..Len(ids)

Running == {"fetching", "saveCount", "saveWrite", "saveRead", "increment",
            "render", "newline"}

InFlight == {i \in Items : pc[i] \in Running}

Init ==
  /\ cmd = "idle"
  /\ token = NoToken
  /\ ids = <<>>
  /\ concurrency = Bounded(1)
  /\ completed = 0
  /\ total = 0
  /\ pc = <<>>
  /\ apiTodo = <<>>
  /\ saveArg = <<>>
  /\ exists = <<>>
  /\ shown = <<>>
  /\ fetchCalls = <<>>
  /\ upsertCalls = <<>>
  /\ failure = NoError
  /\ todos = {}
  /\ out = <<>>
  /\ seq = 0
  /\ calls = 0
  /\ lastCall = NoCall
  /\ lastResult = NoResult
  /\ http = NoHttp

(***************************************************************************)
(* The sync command up to Effect.forEach.                                  *)
(***************************************************************************)
\* the human-readable concurrency mode of the first log line
mode(c) ==
  IF c = Bounded(1) THEN "sequential"
  ELSE IF c = Unbounded THEN "unbounded"
  ELSE "parallel"

\* ProgressBarService.initializeProgress: the bar, without carriage return
\* and without newline
initializeProgress(c, t) == <<Display(createSyncProgressMessage(c, t), FALSE)>>

\* a sync command without the guard on an empty id list
syncTodoCommandNoGuard(idList, tok) ==
  /\ cmd = "idle"
  /\ token' = tok
  /\ ids' = idList
  /\ completed' = 0
  /\ failure' = NoError
  /\ pc' = [i \in 1..Len(idList) |-> "queued"]
  /\ apiTodo' = [i \in 1..Len(idList) |-> NoTodo]
  /\ saveArg' = [i \in 1..Len(idList) |-> NoTodo]
  /\ exists' = [i \in 1..Len(idList) |-> FALSE]
  /\ shown' = [i \in 1..Len(idList) |-> 0]
  /\ fetchCalls' = [i \in 1..Len(idList) |-> 0]
  /\ upsertCalls' = [i \in 1..Len(idList) |-> 0]
  /\ total' = Len(idList)
  /\ concurrency' = ConcurrencyOption(tok)
  /\ IF ConcurrencyOption(tok) = Invalid
     THEN /\ cmd' = "rejected"
          /\ out' = <<Log("ValidationError", 0)>>
     ELSE /\ cmd' = "forEach"
          /\ out' = <<Log(mode(ConcurrencyOption(tok)), Len(idList))>>
                      \o initializeProgress(0, Len(idList))
  /\ UNCHANGED todos
  /\ UNCHANGED <<seq, calls, lastCall, lastResult, http>>

\* A new invocation `sync [--concurrency tok] idList`: option validation,
\* the empty-list guard, the first log line and the initial progress bar.
syncTodoCommand(idList, tok) ==
  /\ cmd = "idle"
  /\ token' = tok
  /\ ids' = idList
  /\ completed' = 0
  /\ failure' = NoError
  /\ pc' = [i \in 1..Len(idList) |-> "queued"]
  /\ apiTodo' = [i \in 1..Len(idList) |-> NoTodo]
  /\ saveArg' = [i \in 1..Len(idList) |-> NoTodo]
  /\ exists' = [i \in 1..Len(idList) |-> FALSE]
  /\ shown' = [i \in 1..Len(idList) |-> 0]
  /\ fetchCalls' = [i \in 1..Len(idList) |-> 0]
  /\ upsertCalls' = [i \in 1..Len(idList) |-> 0]
  /\ total' = Len(idList)
  /\ concurrency' = ConcurrencyOption(tok)
  /\ IF ConcurrencyOption(tok) = Invalid
     THEN /\ cmd' = "rejected"
          /\ out' = <<Log("ValidationError", 0)>>
     ELSE IF Len(idList) = 0
     THEN /\ cmd' = "noIds"
          /\ out' = <<Log("Please provide at least one todo ID to sync", 0)>>
     ELSE /\ cmd' = "forEach"
          /\ out' = <<Log(mode(ConcurrencyOption(tok)), Len(idList))>>
                      \o initializeProgress(0, Len(idList))
  /\ UNCHANGED todos
  /\ UNCHANGED <<seq, calls, lastCall, lastResult, http>>

(***************************************************************************)
(* Effect.forEach(ids, syncTodo, { concurrency }).                         *)
(***************************************************************************)
\* a forEach that ignores its concurrency option and runs every item at once
DegreeIgnoringOption(c, n) == n

\* the number of fibers forEach keeps running: sequential for 1, n for a
\* number above 1, the whole list for "unbounded"
Degree(c, n) ==
  IF c = Unbounded THEN n
  ELSE IF c.n > 1 THEN c.n
  ELSE 1

\* a forEach that keeps starting queued items after a fiber failed
StartItemAfterFailure(i) ==
  /\ cmd = "forEach"
  /\ pc[i] = "queued"
  /\ \A j \in 1..(i - 1) : pc[j] # "queued"
  /\ Cardinality(InFlight) < Degree(concurrency, Len(ids))
  /\ pc' = [pc EXCEPT ![i] = "fetching"]
  /\ fetchCalls' = [fetchCalls EXCEPT ![i] = @ + 1]
  /\ UNCHANGED <<cmd, token, ids, concurrency, completed, total, apiTodo,
                 saveArg, exists, shown, upsertCalls, failure, todos, out>>
  /\ UNCHANGED <<seq, calls, lastCall, lastResult, http>>

\* a forEach that starts the first Degree items and none after them
StartItemFirstBatch(i) ==
  /\ cmd = "forEach"
  /\ pc[i] = "queued"
  /\ \A j \in 1..(i - 1) : pc[j] # "queued"
  /\ failure = NoError
  /\ i <= Degree(concurrency, Len(ids))
  /\ Cardinality(InFlight) < Degree(concurrency, Len(ids))
  /\ pc' = [pc EXCEPT ![i] = "fetching"]
  /\ fetchCalls' = [fetchCalls EXCEPT ![i] = @ + 1]
  /\ UNCHANGED <<cmd, token, ids, concurrency, completed, total, apiTodo,
                 saveArg, exists, shown, upsertCalls, failure, todos, out>>
  /\ UNCHANGED <<seq, calls, lastCall, lastResult, http>>

\* forEach starts the items in list order, while fewer than Degree fibers
\* run and no fiber has failed; the fiber calls TodoService.getTodoById
StartItem(i) ==
  /\ cmd = "forEach"
  /\ pc[i] = "queued"
  /\ \A j \in 1..(i - 1) : pc[j] # "queued"
  /\ failure = NoError
  /\ Cardinality(InFlight) < Degree(concurrency, Len(ids))
  /\ pc' = [pc EXCEPT ![i] = "fetching"]
  /\ fetchCalls' = [fetchCalls EXCEPT ![i] = @ + 1]
  /\ UNCHANGED <<cmd, token, ids, concurrency, completed, total, apiTodo,
                 saveArg, exists, shown, upsertCalls, failure, todos, out>>
  /\ UNCHANGED <<seq, calls, lastCall, lastResult, http>>

\* a forEach that reports the error of the fiber that failed last
FailKeepsLast(i, e) ==
  /\ pc' = [pc EXCEPT ![i] = "failed"]
  /\ failure' = e
  /\ apiTodo' = [apiTodo EXCEPT ![i] = NoTodo]
  /\ saveArg' = [saveArg EXCEPT ![i] = NoTodo]
  /\ exists' = [exists EXCEPT ![i] = FALSE]

\* the fiber of item i fails with error e; the first failure is the one
\* forEach reports
Fail(i, e) ==
  /\ pc' = [pc EXCEPT ![i] = "failed"]
  /\ failure' = IF failure = NoError THEN e ELSE failure
  /\ apiTodo' = [apiTodo EXCEPT ![i] = NoTodo]
  /\ saveArg' = [saveArg EXCEPT ![i] = NoTodo]
  /\ exists' = [exists EXCEPT ![i] = FALSE]

\* a syncTodo that saves a Todo other than the one it fetched
FetchOkSavesOther(i) ==
  /\ cmd = "forEach"
  /\ pc[i] = "fetching"
  /\ \E data \in RemotePayloads(ids[i]), other \in RemotePayloads(ids[i]) :
       /\ DecodeTodo(data).ok
       /\ DecodeTodo(other).ok
       /\ apiTodo' = [apiTodo EXCEPT ![i] = DecodeTodo(data).todo]
       /\ saveArg' = [saveArg EXCEPT ![i] = DecodeTodo(other).todo]
  /\ upsertCalls' = [upsertCalls EXCEPT ![i] = @ + 1]
  /\ pc' = [pc EXCEPT ![i] = "saveCount"]
  /\ UNCHANGED <<cmd, token, ids, concurrency, completed, total, exists,
                 shown, fetchCalls, failure, todos, out>>
  /\ UNCHANGED <<seq, calls, lastCall, lastResult, http>>

\* TodoService.getTodoById(id) succeeds: the payload decodes to a Todo, and
\* syncTodo hands it to DatabaseService.saveTodo
FetchOk(i) ==
  /\ cmd = "forEach"
  /\ pc[i] = "fetching"
  /\ \E data \in RemotePayloads(ids[i]) :
       /\ DecodeTodo(data).ok
       /\ apiTodo' = [apiTodo EXCEPT ![i] = DecodeTodo(data).todo]
       /\ saveArg' = [saveArg EXCEPT ![i] = DecodeTodo(data).todo]
  /\ upsertCalls' = [upsertCalls EXCEPT ![i] = @ + 1]
  /\ pc' = [pc EXCEPT ![i] = "saveCount"]
  /\ UNCHANGED <<cmd, token, ids, concurrency, completed, total, exists,
                 shown, fetchCalls, failure, todos, out>>
  /\ UNCHANGED <<seq, calls, lastCall, lastResult, http>>

\* TodoService.getTodoById(id) fails: every error becomes GetTodoByIdError
FetchFail(i) ==
  /\ cmd = "forEach"
  /\ pc[i] = "fetching"
  /\ Fail(i, GetTodoByIdError(ids[i]))
  /\ UNCHANGED <<cmd, token, ids, concurrency, completed, total, shown,
                 fetchCalls, upsertCalls, todos, out>>
  /\ UNCHANGED <<seq, calls, lastCall, lastResult, http>>

(***************************************************************************)
(* DatabaseService.saveTodo and getTodoById, one action per SQL statement. *)
(***************************************************************************)
\* the row saveTodo writes for a Todo: completedStatus is
\* todo.completed ? "completed" : "pending" on the decoded status string
RowOf(todo) ==
  [id |-> todo.id, user_id |-> todo.userId, title |-> todo.title,
   completed |-> IF TruthyString(todo.completed) THEN "completed"
                 ELSE "pending"]

RowsWithId(rows, id) == {r \in rows : r.id = id}

\* DatabaseService.getTodoById on a table: TodoNotFound, or the decoded row
getTodoById(rows, id) ==
  IF RowsWithId(rows, id) = {} THEN [tag |-> "TodoNotFound", todo |-> NoTodo]
  ELSE LET row == CHOOSE r \in RowsWithId(rows, id) : TRUE
           d   == DecodeTodo([userId |-> row.user_id, id |-> row.id,
                              title |-> row.title,
                              completed |-> row.completed = "completed"])
       IN IF d.ok THEN [tag |-> "ok", todo |-> d.todo]
          ELSE [tag |-> "DatabaseError", todo |-> NoTodo]

\* SELECT COUNT(*) FROM todos WHERE id = todo.id
SaveCount(i) ==
  /\ cmd = "forEach"
  /\ pc[i] = "saveCount"
  /\ exists' = [exists EXCEPT ![i] = RowsWithId(todos, saveArg[i].id) # {}]
  /\ pc' = [pc EXCEPT ![i] = "saveWrite"]
  /\ UNCHANGED <<cmd, token, ids, concurrency, completed, total, apiTodo,
                 saveArg, shown, fetchCalls, upsertCalls, failure, todos, out>>
  /\ UNCHANGED <<seq, calls, lastCall, lastResult, http>>

\* the statement fails in the database (SqlError): saveTodo's catchAll
\* turns it into DatabaseError
SaveSqlError(i) ==
  /\ cmd = "forEach"
  /\ pc[i] = "saveCount"
  /\ Fail(i, DatabaseError(saveArg[i].id, "SqlError"))
  /\ UNCHANGED <<cmd, token, ids, concurrency, completed, total, shown,
                 fetchCalls, upsertCalls, todos, out>>
  /\ UNCHANGED <<seq, calls, lastCall, lastResult, http>>

\* UPDATE todos SET ... WHERE id = todo.id
SaveUpdate(i) ==
  /\ cmd = "forEach"
  /\ pc[i] = "saveWrite"
  /\ exists[i]
  /\ todos' = {IF r.id = saveArg[i].id THEN RowOf(saveArg[i]) ELSE r :
                 r \in todos}
  /\ pc' = [pc EXCEPT ![i] = "saveRead"]
  /\ exists' = [exists EXCEPT ![i] = FALSE]
  /\ UNCHANGED <<cmd, token, ids, concurrency, completed, total, apiTodo,
                 saveArg, shown, fetchCalls, upsertCalls, failure, out>>
  /\ UNCHANGED <<seq, calls, lastCall, lastResult, http>>

\* INSERT INTO todos (id, ...): the PRIMARY KEY rejects an id that is
\* already in the table, and saveTodo's catchAll makes it DatabaseError; an
\* AUTOINCREMENT table remembers the largest id it was given
SaveInsert(i) ==
  /\ cmd = "forEach"
  /\ pc[i] = "saveWrite"
  /\ ~exists[i]
  /\ IF RowsWithId(todos, saveArg[i].id) # {}
     THEN /\ Fail(i, DatabaseError(saveArg[i].id, "UNIQUE constraint failed"))
          /\ UNCHANGED <<todos, seq>>
     ELSE /\ todos' = todos \cup {RowOf(saveArg[i])}
          /\ seq' = Max(seq, saveArg[i].id)
          /\ pc' = [pc EXCEPT ![i] = "saveRead"]
          /\ UNCHANGED <<failure, apiTodo, saveArg, exists>>
  /\ UNCHANGED <<cmd, token, ids, concurrency, completed, total, shown,
                 fetchCalls, upsertCalls, out>>
  /\ UNCHANGED <<calls, lastCall, lastResult, http>>

\* return yield* getTodoById(todo.id): saveTodo returns the stored Todo, and
\* with it the fiber's apiTodo goes out of use
SaveRead(i) ==
  /\ cmd = "forEach"
  /\ pc[i] = "saveRead"
  /\ IF getTodoById(todos, saveArg[i].id).tag = "ok"
     THEN /\ pc' = [pc EXCEPT ![i] = "increment"]
          /\ apiTodo' = [apiTodo EXCEPT ![i] = NoTodo]
          /\ saveArg' = [saveArg EXCEPT ![i] = NoTodo]
          /\ UNCHANGED <<failure, exists>>
     ELSE Fail(i, DatabaseError(saveArg[i].id,
                                getTodoById(todos, saveArg[i].id).tag))
  /\ UNCHANGED <<cmd, token, ids, concurrency, completed, total, shown,
                 fetchCalls, upsertCalls, todos, out>>
  /\ UNCHANGED <<seq, calls, lastCall, lastResult, http>>

(***************************************************************************)
(* The progress update of syncTodo.                                        *)
(***************************************************************************)
\* a syncTodo that hands updateProgress the value before the increment
IncrementShowsOld(i) ==
  /\ cmd = "forEach"
  /\ pc[i] = "increment"
  /\ completed' = completed + 1
  /\ shown' = [shown EXCEPT ![i] = completed]
  /\ pc' = [pc EXCEPT ![i] = "render"]
  /\ UNCHANGED <<cmd, token, ids, concurrency, total, apiTodo, saveArg,
                 exists, fetchCalls, upsertCalls, failure, todos, out>>
  /\ UNCHANGED <<seq, calls, lastCall, lastResult, http>>

\* completed++; progressBar.updateProgress(completed, total) is called with
\* the value just incremented (no yield* lies between the two)
Increment(i) ==
  /\ cmd = "forEach"
  /\ pc[i] = "increment"
  /\ completed' = completed + 1
  /\ shown' = [shown EXCEPT ![i] = completed + 1]
  /\ pc' = [pc EXCEPT ![i] = "render"]
  /\ UNCHANGED <<cmd, token, ids, concurrency, total, apiTodo, saveArg,
                 exists, fetchCalls, upsertCalls, failure, todos, out>>
  /\ UNCHANGED <<seq, calls, lastCall, lastResult, http>>

\* an updateProgress that reads the shared counter when it renders
RenderLiveCounter(i) ==
  /\ cmd = "forEach"
  /\ pc[i] = "render"
  /\ out' = Append(out, Display(createSyncProgressMessage(completed, total),
                                TRUE))
  /\ pc' = [pc EXCEPT ![i] = IF completed >= total THEN "newline" ELSE "done"]
  /\ shown' = [shown EXCEPT ![i] = 0]
  /\ UNCHANGED <<cmd, token, ids, concurrency, completed, total, apiTodo,
                 saveArg, exists, fetchCalls, upsertCalls, failure, todos>>
  /\ UNCHANGED <<seq, calls, lastCall, lastResult, http>>

\* updateProgress: terminal.display(`\r${progressMessage}`)
Render(i) ==
  /\ cmd = "forEach"
  /\ pc[i] = "render"
  /\ out' = Append(out, Display(createSyncProgressMessage(shown[i], total),
                                TRUE))
  /\ pc' = [pc EXCEPT ![i] = IF shown[i] >= total THEN "newline" ELSE "done"]
  /\ shown' = [shown EXCEPT ![i] = 0]
  /\ UNCHANGED <<cmd, token, ids, concurrency, completed, total, apiTodo,
                 saveArg, exists, fetchCalls, upsertCalls, failure, todos>>
  /\ UNCHANGED <<seq, calls, lastCall, lastResult, http>>

\* updateProgress: if (completed >= total) terminal.display("\n")
RenderNewline(i) ==
  /\ cmd = "forEach"
  /\ pc[i] = "newline"
  /\ out' = Append(out, NewLine)
  /\ pc' = [pc EXCEPT ![i] = "done"]
  /\ UNCHANGED <<cmd, token, ids, concurrency, completed, total, apiTodo,
                 saveArg, exists, shown, fetchCalls, upsertCalls, failure,
                 todos>>
  /\ UNCHANGED <<seq, calls, lastCall, lastResult, http>>

(***************************************************************************)
(* How Effect.forEach ends.                                                *)
(***************************************************************************)
\* after a fiber failed, forEach interrupts the fibers still running
Interrupt(i) ==
  /\ cmd = "forEach"
  /\ failure # NoError
  /\ pc[i] \in Running
  /\ pc' = [pc EXCEPT ![i] = "interrupted"]
  /\ apiTodo' = [apiTodo EXCEPT ![i] = NoTodo]
  /\ saveArg' = [saveArg EXCEPT ![i] = NoTodo]
  /\ exists' = [exists EXCEPT ![i] = FALSE]
  /\ shown' = [shown EXCEPT ![i] = 0]
  /\ UNCHANGED <<cmd, token, ids, concurrency, completed, total, fetchCalls,
                 upsertCalls, failure, todos, out>>
  /\ UNCHANGED <<seq, calls, lastCall, lastResult, http>>

\* a handler that logs the success line while items are still under way
SyncSucceedsEarly ==
  /\ cmd = "forEach"
  /\ failure = NoError
  /\ out' = Append(out, Log("Successfully synced", Len(ids)))
  /\ cmd' = "succeeded"
  /\ UNCHANGED <<token, ids, concurrency, completed, total, pc, apiTodo,
                 saveArg, exists, shown, fetchCalls, upsertCalls, failure,
                 todos>>
  /\ UNCHANGED <<seq, calls, lastCall, lastResult, http>>

\* every item is done: the success line is logged
SyncSucceeds ==
  /\ cmd = "forEach"
  /\ \A i \in Items : pc[i] = "done"
  /\ failure = NoError
  /\ out' = Append(out, Log("Successfully synced", Len(ids)))
  /\ cmd' = "succeeded"
  /\ UNCHANGED <<token, ids, concurrency, completed, total, pc, apiTodo,
                 saveArg, exists, shown, fetchCalls, upsertCalls, failure,
                 todos>>
  /\ UNCHANGED <<seq, calls, lastCall, lastResult, http>>

\* a fiber failed and no fiber runs any more: forEach fails with the first
\* error, and the command ends without the success line
SyncFails ==
  /\ cmd = "forEach"
  /\ failure # NoError
  /\ InFlight = {}
  /\ cmd' = "failed"
  /\ UNCHANGED <<token, ids, concurrency, completed, total, pc, apiTodo,
                 saveArg, exists, shown, fetchCalls, upsertCalls, failure,
                 todos, out>>
  /\ UNCHANGED <<seq, calls, lastCall, lastResult, http>>

\* the process ends; the table stays for the next invocation
ProcessExit ==
  /\ cmd \in {"rejected", "noIds", "succeeded", "failed"}
  /\ cmd' = "idle"
  /\ token' = NoToken
  /\ ids' = <<>>
  /\ concurrency' = Bounded(1)
  /\ completed' = 0
  /\ total' = 0
  /\ pc' = <<>>
  /\ apiTodo' = <<>>
  /\ saveArg' = <<>>
  /\ exists' = <<>>
  /\ shown' = <<>>
  /\ fetchCalls' = <<>>
  /\ upsertCalls' = <<>>
  /\ failure' = NoError
  /\ out' = <<>>
  /\ UNCHANGED todos
  /\ UNCHANGED <<seq, calls, lastCall, lastResult, http>>

Next ==
  \/ \E idList \in IdLists, tok \in Tokens \cup {NoToken} :
       syncTodoCommand(idList, tok)
  \/ \E i \in Items : StartItem(i)
  \/ \E i \in Items : FetchOk(i)
  \/ \E i \in Items : FetchFail(i)
  \/ \E i \in Items : SaveCount(i)
  \/ \E i \in Items : SaveSqlError(i)
  \/ \E i \in Items : SaveUpdate(i)
  \/ \E i \in Items : SaveInsert(i)
  \/ \E i \in Items : SaveRead(i)
  \/ \E i \in Items : Increment(i)
  \/ \E i \in Items : Render(i)
  \/ \E i \in Items : RenderNewline(i)
  \/ \E i \in Items : Interrupt(i)
  \/ SyncSucceeds
  \/ SyncFails
  \/ ProcessExit

Spec == Init /\ [][Next]_vars

\* a step of a fiber of the forEach, or of the handler after the forEach,
\* while the remote API and the database answer every request: no fetch
\* fails, and saveTodo fails only where its own INSERT meets a row written
\* meanwhile
SyncStep ==
  \/ \E i \in Items : StartItem(i)
  \/ \E i \in Items : FetchOk(i)
  \/ \E i \in Items : SaveCount(i)
  \/ \E i \in Items : SaveUpdate(i)
  \/ \E i \in Items : SaveInsert(i)
  \/ \E i \in Items : SaveRead(i)
  \/ \E i \in Items : Increment(i)
  \/ \E i \in Items : Render(i)
  \/ \E i \in Items : RenderNewline(i)
  \/ \E i \in Items : Interrupt(i)
  \/ SyncSucceeds
  \/ SyncFails

\* one invocation of sync on an empty store
LiveNext ==
  \/ \E idList \in IdLists, tok \in Tokens \cup {NoToken} :
       syncTodoCommand(idList, tok)
  \/ SyncStep

\* the runtime keeps running: while a fiber or the handler can take a step,
\* a step is taken
LiveSpec == Init /\ [][LiveNext]_vars /\ WF_vars(SyncStep)

(***************************************************************************)
(* DatabaseService called one operation at a time, as the commands init,  *)
(* get, list, create and clear do and as a sequential sync does for every  *)
(* Todo it fetched.  Each call runs to its end before the next one starts. *)
(***************************************************************************)
\* number of calls in one behaviour
MaxCalls == 4

\* the rows initializeDatabase inserts into an empty table, in order
SampleRows ==
  << [user_id |-> 1, completed |-> "pending",
      title |-> <<"L", "e", "a", "r", "n", " ", "E", "f", "f", "e", "c",
                 "t">>],
     [user_id |-> 1, completed |-> "completed",
      title |-> <<"B", "u", "i", "l", "d", " ", "a", " ", "C", "L", "I", " ",
                 "a", "p", "p">>],
     [user_id |-> 2, completed |-> "pending",
      title |-> <<"M", "a", "s", "t", "e", "r", " ", "T", "y", "p", "e", "S",
                 "c", "r", "i", "p", "t">>],
     [user_id |-> 1, completed |-> "pending",
      title |-> <<"U", "s", "e", " ", "S", "Q", "L", "i", "t", "e", " ", "w",
                 "i", "t", "h", " ", "E", "f", "f", "e", "c", "t">>],
     [user_id |-> 2, completed |-> "completed",
      title |-> <<"W", "r", "i", "t", "e", " ", "d", "o", "c", "u", "m", "e",
                 "n", "t", "a", "t", "i", "o", "n">>] >>

\* a title of n characters
TitleOfLength(n) == [i \in 1..n |-> "x"]

\* arguments of createTodo: completed left out, the longest title, a title
\* one character too long, an empty title, a user id that is not positive
CreateInputs ==
  { [userId |-> 1, title |-> TitleOfLength(1), completed |-> <<>>],
    [userId |-> 2, title |-> TitleOfLength(MaxTitleLength),
     completed |-> <<TRUE>>],
    [userId |-> 1, title |-> TitleOfLength(MaxTitleLength + 1),
     completed |-> <<FALSE>>],
    [userId |-> 1, title |-> <<>>, completed |-> <<FALSE>>],
    [userId |-> 0, title |-> TitleOfLength(1), completed |-> <<FALSE>>] }

\* ids of the Todos handed to saveTodo: one among the first rows, one beyond
SaveIds == {2, 7}

\* arguments of saveTodo: Todos as the remote API's payloads decode
SaveInputs ==
  UNION { {DecodeTodo(data).todo : data \in RemotePayloads(id)} :
            id \in SaveIds }

\* ids asked of getTodoById
GetIds == {1, 2, 6, 7, 8}

Call(op) == [NoCall EXCEPT !.op = op]

Ok == [NoResult EXCEPT !.tag = "ok"]

\* DatabaseError with the message of the operation's catchAll and the error
\* it wraps
Failed(message, cause) ==
  [NoResult EXCEPT !.tag = "DatabaseError", !.message = message,
                   !.cause = cause]

\* JavaScript truthiness of an optional boolean
TruthyOption(c) == c # <<>> /\ c[1]

LargestId(rows) ==
  IF rows = {} THEN 0
  ELSE CHOOSE i \in {r.id : r \in rows} : \A r \in rows : r.id <= i

\* an id generator that counts the rows of the table
NextIdByCount(rows, s) == Cardinality(rows) + 1

\* id INTEGER PRIMARY KEY AUTOINCREMENT: one more than the largest id the
\* table ever held
NextId(rows, s) == Max(s, LargestId(rows)) + 1

\* ORDER BY id
RECURSIVE OrderById(_)
OrderById(rows) ==
  IF rows = {} THEN <<>>
  ELSE LET r == CHOOSE q \in rows : \A o \in rows : q.id <= o.id
       IN <<r>> \o OrderById(rows \ {r})

\* the bookkeeping of one call, made while no sync command runs
ServiceCall(call, result) ==
  /\ cmd = "idle"
  /\ calls < MaxCalls
  /\ calls' = calls + 1
  /\ lastCall' = call
  /\ lastResult' = result
  /\ UNCHANGED <<cmd, token, ids, concurrency, completed, total, pc, apiTodo,
                 saveArg, exists, shown, fetchCalls, upsertCalls, failure,
                 out, http>>

\* an initializeDatabase that inserts the sample rows whatever the table holds
InitializeDatabaseAlwaysSeeds(fault) ==
  /\ IF fault
     THEN UNCHANGED <<todos, seq>>
     ELSE /\ todos' = todos \cup
                  { [id |-> NextId(todos, seq) + i - 1,
                     user_id |-> SampleRows[i].user_id,
                     title |-> SampleRows[i].title,
                     completed |-> SampleRows[i].completed] :
                      i \in 1..Len(SampleRows) }
          /\ seq' = NextId(todos, seq) + Len(SampleRows) - 1
  /\ ServiceCall(Call("initializeDatabase"),
                 IF fault
                 THEN Failed("Failed to initialize database", "SqlError")
                 ELSE Ok)

\* initializeDatabase: CREATE TABLE IF NOT EXISTS, then the sample rows when
\* the table has no row; fault: the database fails the first statement
InitializeDatabase(fault) ==
  /\ IF fault \/ todos # {}
     THEN UNCHANGED <<todos, seq>>
     ELSE /\ todos' = { [id |-> NextId(todos, seq) + i - 1,
                         user_id |-> SampleRows[i].user_id,
                         title |-> SampleRows[i].title,
                         completed |-> SampleRows[i].completed] :
                          i \in 1..Len(SampleRows) }
          /\ seq' = NextId(todos, seq) + Len(SampleRows) - 1
  /\ ServiceCall(Call("initializeDatabase"),
                 IF fault
                 THEN Failed("Failed to initialize database", "SqlError")
                 ELSE Ok)

\* a getTodoById that reports a missing row as DatabaseError
GetTodoByIdWrapsNotFound(id, fault) ==
  /\ UNCHANGED <<todos, seq>>
  /\ ServiceCall([Call("getTodoById") EXCEPT !.id = id],
       IF fault THEN Failed("Database query error", "SqlError")
       ELSE IF getTodoById(todos, id).tag = "ok"
       THEN [Ok EXCEPT !.todo = getTodoById(todos, id).todo]
       ELSE Failed("Database query error", "TodoNotFound"))

\* getTodoById(id): the Todo, TodoNotFound({ id }), or DatabaseError
GetTodoById(id, fault) ==
  /\ UNCHANGED <<todos, seq>>
  /\ ServiceCall([Call("getTodoById") EXCEPT !.id = id],
       IF fault THEN Failed("Database query error", "SqlError")
       ELSE IF getTodoById(todos, id).tag = "ok"
       THEN [Ok EXCEPT !.todo = getTodoById(todos, id).todo]
       ELSE IF getTodoById(todos, id).tag = "TodoNotFound"
       THEN [NoResult EXCEPT !.tag = "TodoNotFound", !.id = id]
       ELSE Failed("Schema decode error", "ParseError"))

\* getAllTodos: the rows in id order, each decoded; one row that does not
\* decode fails the whole call
GetAllTodos(fault) ==
  /\ UNCHANGED <<todos, seq>>
  /\ ServiceCall(Call("getAllTodos"),
       IF fault THEN Failed("Failed to fetch todos", "SqlError")
       ELSE IF \E r \in todos : getTodoById(todos, r.id).tag # "ok"
       THEN Failed("Failed to fetch todos", "ParseError")
       ELSE [Ok EXCEPT !.list =
               [i \in 1..Cardinality(todos) |->
                  getTodoById(todos, OrderById(todos)[i].id).todo]])

\* createTodo(data): INSERT ... RETURNING id, then getTodoById(newId); an
\* error of either is wrapped as "Failed to create todo"
CreateTodo(data, fault) ==
  LET newId == NextId(todos, seq)
      row   == [id |-> newId, user_id |-> data.userId, title |-> data.title,
                completed |-> IF TruthyOption(data.completed) THEN "completed"
                              ELSE "pending"]
  IN /\ IF fault \/ RowsWithId(todos, newId) # {}
        THEN UNCHANGED <<todos, seq>>
        ELSE /\ todos' = todos \cup {row}
             /\ seq' = newId
     /\ ServiceCall([Call("createTodo") EXCEPT !.data = data],
          IF fault THEN Failed("Failed to create todo", "SqlError")
          ELSE IF RowsWithId(todos, newId) # {}
          THEN Failed("Failed to create todo", "UNIQUE constraint failed")
          ELSE IF getTodoById(todos', newId).tag = "ok"
          THEN [Ok EXCEPT !.todo = getTodoById(todos', newId).todo]
          ELSE Failed("Failed to create todo", "Schema decode error"))

\* a clearAllTodos that deletes the completed rows only
ClearCompletedTodos(fault) ==
  /\ todos' = IF fault THEN todos
              ELSE {r \in todos : r.completed # "completed"}
  /\ UNCHANGED seq
  /\ ServiceCall(Call("clearAllTodos"),
                 IF fault THEN Failed("Failed to clear todos", "SqlError")
                 ELSE Ok)

\* clearAllTodos: DELETE FROM todos; the AUTOINCREMENT sequence stays
ClearAllTodos(fault) ==
  /\ todos' = IF fault THEN todos ELSE {}
  /\ UNCHANGED seq
  /\ ServiceCall(Call("clearAllTodos"),
                 IF fault THEN Failed("Failed to clear todos", "SqlError")
                 ELSE Ok)

\* saveTodo(todo) run without another fiber in between: SELECT COUNT, then
\* UPDATE or INSERT with the given id, then getTodoById(todo.id)
SaveTodo(todo, fault) ==
  /\ IF fault
     THEN UNCHANGED <<todos, seq>>
     ELSE IF RowsWithId(todos, todo.id) # {}
     THEN /\ todos' = {IF r.id = todo.id THEN RowOf(todo) ELSE r : r \in todos}
          /\ UNCHANGED seq
     ELSE /\ todos' = todos \cup {RowOf(todo)}
          /\ seq' = Max(seq, todo.id)
  /\ ServiceCall([Call("saveTodo") EXCEPT !.todo = todo],
       IF fault THEN Failed("Failed to save todo", "SqlError")
       ELSE IF getTodoById(todos', todo.id).tag = "ok"
       THEN [Ok EXCEPT !.todo = getTodoById(todos', todo.id).todo]
       ELSE Failed("Failed to save todo", "Schema decode error"))

StoreNext ==
  \/ \E fault \in BOOLEAN : InitializeDatabase(fault)
  \/ \E id \in GetIds, fault \in BOOLEAN : GetTodoById(id, fault)
  \/ \E fault \in BOOLEAN : GetAllTodos(fault)
  \/ \E data \in CreateInputs, fault \in BOOLEAN : CreateTodo(data, fault)
  \/ \E fault \in BOOLEAN : ClearAllTodos(fault)
  \/ \E todo \in SaveInputs, fault \in BOOLEAN : SaveTodo(todo, fault)

StoreSpec == Init /\ [][StoreNext]_vars

(***************************************************************************)
(* Decoding one concurrency value on its own, as the test of the schema    *)
(* does: Schema.decodeUnknownSync(ConcurrencySchema)(input).               *)
(***************************************************************************)
\* the largest integer the test draws
MaxTested == 10000

DigitChar(d) ==
  CASE d = 0 -> "0" [] d = 1 -> "1" [] d = 2 -> "2" [] d = 3 -> "3"
    [] d = 4 -> "4" [] d = 5 -> "5" [] d = 6 -> "6" [] d = 7 -> "7"
    [] d = 8 -> "8" [] d = 9 -> "9"

\* n.toString() of a non-negative integer: its decimal digits
RECURSIVE toString(_)
toString(n) ==
  IF n < 10 THEN <<DigitChar(n)>>
  ELSE toString(n \div 10) \o <<DigitChar(n % 10)>>

\* an input of the decoder: a string with its text, or a value of another
\* type; n is the integer the text was written from, 0 when there is none
Str(text) == [type |-> "string", text |-> text, n |-> 0]

StrOf(n) == [type |-> "string", text |-> toString(n), n |-> n]

\* null, undefined, {} and []
NonStrings ==
  { [type |-> t, text |-> <<>>, n |-> 0] :
      t \in {"null", "undefined", "object", "array"} }

\* further strings the test expects to be rejected
OtherStrings ==
  { <<"-", "1", "0", "0">>,
    <<"u", "n", "b", "o", "u", "n", "d", "e", "d", "n", "e", "s", "s">>,
    <<"b", "o", "u", "n", "d", "e", "d">>,
    <<"n", "o", "n", "e">>, <<"a", "l", "l">> }

\* decimal fractions within half a unit in the last place of the integer 1
RoundedTokens ==
  { <<"1", ".", "0", "0", "0", "0", "0", "0", "0", "0", "0", "0", "0", "0",
    "0", "0", "0", "0", "0", "0", "1">>,
    <<"0", ".", "9", "9", "9", "9", "9", "9", "9", "9", "9", "9", "9", "9",
      "9", "9", "9", "9", "9", "9", "9", "9">> }

DecodeInputs ==
  {StrOf(n) : n \in 1..MaxTested}
    \cup {Str(t) : t \in Tokens \cup OtherStrings \cup RoundedTokens}
    \cup NonStrings

\* decodeUnknown: a value that is no string matches neither member of the
\* union
decode(input) ==
  IF input.type = "string" THEN ConcurrencySchema(input.text) ELSE Invalid

\* the test case is set up with its input
ParseInit ==
  /\ cmd = "idle"
  /\ token = NoToken
  /\ ids = <<>>
  /\ concurrency = Bounded(1)
  /\ completed = 0
  /\ total = 0
  /\ pc = <<>>
  /\ apiTodo = <<>>
  /\ saveArg = <<>>
  /\ exists = <<>>
  /\ shown = <<>>
  /\ fetchCalls = <<>>
  /\ upsertCalls = <<>>
  /\ failure = NoError
  /\ todos = {}
  /\ out = <<>>
  /\ seq = 0
  /\ calls = 0
  /\ \E input \in DecodeInputs :
       lastCall = [NoCall EXCEPT !.op = "decode", !.input = input]
  /\ lastResult = NoResult
  /\ http = NoHttp

\* decode(input): the decoded value, or a ParseError
Decode ==
  /\ lastCall.op = "decode"
  /\ calls = 0
  /\ calls' = 1
  /\ lastResult' =
       [NoResult EXCEPT
          !.tag = IF decode(lastCall.input) = Invalid THEN "ParseError"
                  ELSE "ok",
          !.value = decode(lastCall.input)]
  /\ UNCHANGED <<cmd, token, ids, concurrency, completed, total, pc, apiTodo,
                 saveArg, exists, shown, fetchCalls, upsertCalls, failure,
                 todos, out, seq, lastCall, http>>

ParseNext == Decode

ParseSpec == ParseInit /\ [][ParseNext]_vars

(***************************************************************************)
(* TodoService.getTodoById called on its own: one request after another     *)
(* through the retrying HTTP client, until the call returns.               *)
(***************************************************************************)
\* Schedule.exponential("100 millis", 2): the base delay and the factor
exponentialBase == 100

exponentialFactor == 2

\* Schedule.upTo("5 seconds"), in milliseconds
upTo == 5000

\* the milliseconds one request may take before it fails
RequestMillis == {0, 1000}

\* what retryTransient retries: a transport error of the request, a 503
\* response; one call meets failures of one kind
TransientFaults == {"Transport", "503"}

\* a payload whose title does not decode
MalformedPayload(id) ==
  [userId |-> 1, id |-> id, title |-> <<>>, completed |-> FALSE]

\* the delay Schedule.exponential gives at its n-th step
exponential(n) == exponentialBase * Power(exponentialFactor, n)

\* catchAll of TodoService.getTodoById: every error becomes GetTodoByIdError
FetchFailed(id) ==
  [NoResult EXCEPT !.tag = "GetTodoByIdError", !.id = id,
                   !.message = "Failed to fetch todo"]

\* a step of the call changes the call and the HTTP client only
FetchFrame ==
  UNCHANGED <<cmd, token, ids, concurrency, completed, total, pc, apiTodo,
              saveArg, exists, shown, fetchCalls, upsertCalls, failure,
              todos, out, seq, calls>>

\* getTodoById(id) is called: the first request goes out
TodoService_getTodoById(id, fault) ==
  /\ lastCall = NoCall
  /\ http.state = "idle"
  /\ lastCall' = [Call("TodoService.getTodoById") EXCEPT !.id = id]
  /\ http' = [NoHttp EXCEPT !.state = "request", !.fault = fault]
  /\ UNCHANGED lastResult
  /\ FetchFrame

\* the request fails in a transient way after ms milliseconds: the schedule
\* is stepped; exponential gives the delay, and upTo ends the schedule once
\* the time since its first step has reached 5 seconds, which fails the call
ExecuteTransient(ms) ==
  LET elapsed == IF http.attempt = 0 THEN 0
                 ELSE http.elapsed + http.wait + ms
  IN /\ http.state = "request"
     /\ IF elapsed < upTo
        THEN /\ http' = [http EXCEPT !.state = "wait", !.status = http.fault,
                                     !.attempt = @ + 1, !.elapsed = elapsed,
                                     !.wait = exponential(http.attempt)]
             /\ UNCHANGED lastResult
        ELSE /\ http' = [http EXCEPT !.state = "done", !.status = http.fault,
                                     !.elapsed = elapsed, !.wait = 0]
             /\ lastResult' = FetchFailed(lastCall.id)
     /\ UNCHANGED lastCall
     /\ FetchFrame

\* the delay has passed: the request is made again
Sleep ==
  /\ http.state = "wait"
  /\ http' = [http EXCEPT !.state = "request"]
  /\ UNCHANGED <<lastCall, lastResult>>
  /\ FetchFrame

\* a 4xx response: not transient, filterStatusOk fails the call
ExecuteClientError ==
  /\ http.state = "request"
  /\ http' = [http EXCEPT !.state = "done", !.status = "404", !.wait = 0]
  /\ lastResult' = FetchFailed(lastCall.id)
  /\ UNCHANGED lastCall
  /\ FetchFrame

\* a 200 response: response.json is decoded with Schema.decodeUnknown(Todo);
\* a payload that does not decode fails the call
ExecuteOk(data) ==
  /\ http.state = "request"
  /\ http' = [http EXCEPT !.state = "done", !.status = "200", !.wait = 0]
  /\ lastResult' = IF DecodeTodo(data).ok
                   THEN [Ok EXCEPT !.todo = DecodeTodo(data).todo]
                   ELSE FetchFailed(lastCall.id)
  /\ UNCHANGED lastCall
  /\ FetchFrame

FetchNext ==
  \/ \E id \in IdSet, fault \in TransientFaults :
       TodoService_getTodoById(id, fault)
  \/ \E ms \in RequestMillis : ExecuteTransient(ms)
  \/ Sleep
  \/ ExecuteClientError
  \/ \E data \in RemotePayloads(lastCall.id) \cup
                   {MalformedPayload(lastCall.id)} : ExecuteOk(data)

FetchSpec == Init /\ [][FetchNext]_vars

(***************************************************************************)
(* createSyncProgressMessage applied to one pair (completed, total) on its  *)
(* own.                                                                    *)
(***************************************************************************)
\* the largest total drawn
MaxTotal == 60

\* a pair 0 <= completed <= total with total > 0 is chosen
RenderInit ==
  /\ cmd = "idle"
  /\ token = NoToken
  /\ ids = <<>>
  /\ concurrency = Bounded(1)
  /\ \E t \in 1..MaxTotal : \E c \in 0..t : completed = c /\ total = t
  /\ pc = <<>>
  /\ apiTodo = <<>>
  /\ saveArg = <<>>
  /\ exists = <<>>
  /\ shown = <<>>
  /\ fetchCalls = <<>>
  /\ upsertCalls = <<>>
  /\ failure = NoError
  /\ todos = {}
  /\ out = <<>>
  /\ seq = 0
  /\ calls = 0
  /\ lastCall = Call("createSyncProgressMessage")
  /\ lastResult = NoResult
  /\ http = NoHttp

\* createSyncProgressMessage(completed, total), its text put on the terminal
RenderProgress ==
  /\ lastCall.op = "createSyncProgressMessage"
  /\ out = <<>>
  /\ out' = <<Display(createSyncProgressMessage(completed, total), FALSE)>>
  /\ UNCHANGED <<cmd, token, ids, concurrency, completed, total, pc, apiTodo,
                 saveArg, exists, shown, fetchCalls, upsertCalls, failure,
                 todos, seq, calls, lastCall, lastResult, http>>

RenderNext == RenderProgress

RenderSpec == RenderInit /\ [][RenderNext]_vars

(***************************************************************************)
(* Properties of the sync command.                                         *)
(***************************************************************************)
\* C1: during a sync run the number of ids in flight (fetch started, neither
\* finished its progress update nor failed) never exceeds d, where d is 1
\* for concurrency 1, n for concurrency n > 1 and the length of the id list
\* for "unbounded".
C1_InFlightAtMostDegree ==
  cmd = "forEach" =>
    Cardinality(InFlight) <=
      (IF concurrency = Unbounded THEN Len(ids) ELSE concurrency.n)

\* a run with concurrency 2 over three ids: two are in flight, one waits
C1_Witness ==
  /\ cmd = "forEach"
  /\ concurrency = Bounded(2)
  /\ Len(ids) = 3
  /\ Cardinality(InFlight) = 2
  /\ pc[3] = "queued"

\* C2 as stated: when one id's fetch or upsert fails, every other id of the
\* list is still fetched and upserted.
C2_SiblingsStillSynced ==
  cmd = "failed" =>
    \A i \in Items : pc[i] # "failed" =>
      fetchCalls[i] = 1 /\ upsertCalls[i] = 1

\* C2 amended: once an id's fetch or upsert has failed, no queued id is
\* started any more, while the ids that were done stay done and no row
\* already written is removed.
C2_FailureStopsQueue ==
  [][(cmd = "forEach" /\ failure # NoError) =>
       /\ \A i \in Items : pc[i] = "queued" => pc'[i] = "queued"
       /\ \A i \in Items : pc[i] = "done" => pc'[i] = "done"
       /\ \A r \in todos : RowsWithId(todos', r.id) # {}]_vars

\* a failed run that left an id unfetched while another id was synced
C2_Witness ==
  /\ cmd = "failed"
  /\ \E i \in Items : pc[i] = "queued" /\ fetchCalls[i] = 0
  /\ \E i \in Items : pc[i] = "done"

\* the items whose saveTodo call is under way
Saving == {i \in Items : pc[i] \in {"saveCount", "saveWrite", "saveRead"}}

\* the items whose counter increment has run
Counted == {i \in Items : pc[i] \in {"render", "newline", "done"}}

\* C3: in a run where nothing fails every position of the id list gets
\* exactly one fetch and exactly one upsert, the upsert is called with the
\* Todo its fetch returned and only after that fetch returned, and the
\* counter increment comes only after the upsert returned.
C3_EachPositionOnce ==
  /\ \A i \in Items : fetchCalls[i] <= 1 /\ upsertCalls[i] <= fetchCalls[i]
  /\ \A i \in Items : upsertCalls[i] = 1 => pc[i] \notin {"queued", "fetching"}
  /\ \A i \in Saving :
       /\ apiTodo[i] # NoTodo
       /\ saveArg[i] = apiTodo[i]
       /\ upsertCalls[i] = 1
  /\ \A i \in Counted : upsertCalls[i] = 1 /\ apiTodo[i] = NoTodo
  /\ failure = NoError => completed = Cardinality(Counted)
  /\ cmd = "succeeded" =>
       \A i \in Items : fetchCalls[i] = 1 /\ upsertCalls[i] = 1

\* a successful run over three positions, two of them with the same id
C3_Witness ==
  /\ cmd = "succeeded"
  /\ Len(ids) = 3
  /\ ids[1] = ids[3]
  /\ \A i \in Items : fetchCalls[i] = 1 /\ upsertCalls[i] = 1

\* the places of `out` that hold a progress line written by updateProgress
UpdateBars == {p \in 1..Len(out) : out[p].w = "display" /\ out[p].cr}

\* the completed values handed to updateProgress so far
Attributed ==
  {out[p].msg.completed : p \in UpdateBars}
    \cup {shown[i] : i \in {j \in Items : pc[j] = "render"}}

\* C4: under every interleaving the k-th completion increments the counter
\* from k-1 to k and hands exactly k to the progress update; no two items
\* get the same value, no value is skipped, and 0 <= completed <= total.
C4_CounterAttribution ==
  /\ [](/\ 0 <= completed
        /\ completed <= total
        /\ Attributed \subseteq 1..completed
        /\ Cardinality(Attributed) =
             Cardinality(UpdateBars)
               + Cardinality({j \in Items : pc[j] = "render"})
        /\ failure = NoError => Attributed = 1..completed)
  /\ [][(cmd = "forEach" /\ cmd' = "forEach" /\ completed' # completed) =>
          \E i \in Items :
            /\ pc[i] = "increment"
            /\ pc'[i] = "render"
            /\ completed' = completed + 1
            /\ shown'[i] = completed + 1]_vars

\* two items have incremented the counter and wait to render 1 and 2
C4_Witness ==
  /\ cmd = "forEach"
  /\ completed = 2
  /\ \E i, j \in Items :
       /\ pc[i] = "render" /\ shown[i] = 1
       /\ pc[j] = "render" /\ shown[j] = 2

\* C5 as stated: with concurrency above 1 the progress lines appear in
\* strictly increasing order of completed, and the newline directly follows
\* the line of completed == total.
C5_RendersSerialized ==
  concurrency # Bounded(1) =>
    /\ \A p, q \in UpdateBars :
         p < q => out[p].msg.completed < out[q].msg.completed
    /\ \A p \in 1..Len(out) :
         out[p].w = "newline" =>
           /\ p - 1 \in UpdateBars
           /\ out[p - 1].msg.completed = out[p - 1].msg.total

\* the progress lines on the terminal that show completed == total
FullBars ==
  {p \in 1..Len(out) :
     /\ out[p].w = "display"
     /\ out[p].msg.completed = out[p].msg.total}

\* C6: in a run in which all ids complete, the progress bar with
\* completed == total is rendered exactly once, whatever the interleaving.
C6_FullBarOnce ==
  /\ Cardinality(FullBars) <= 1
  /\ cmd = "succeeded" => Cardinality(FullBars) = 1

\* a successful run of three items that completed concurrently
C6_Witness ==
  /\ cmd = "succeeded"
  /\ concurrency = Unbounded
  /\ Len(ids) = 3
  /\ Cardinality(FullBars) = 1
  /\ Cardinality(UpdateBars) = 3

\* C7 as stated: when an id appears twice and both occurrences run
\* concurrently, neither upsert fails because of the other.
C7_DuplicateUpsertsSucceed ==
  (concurrency # Bounded(1) /\ \E i, j \in Items : i # j /\ ids[i] = ids[j])
    => failure.message # "UNIQUE constraint failed"

\* C8: sync with an empty id list fetches nothing, leaves the store alone
\* and renders no progress; it only prints the request for at least one id
\* and ends.
C8_EmptyListNoOp ==
  /\ []((cmd # "idle" /\ ids = <<>> /\ concurrency # Invalid) =>
          /\ cmd = "noIds"
          /\ out = <<Log("Please provide at least one todo ID to sync", 0)>>)
  /\ [][(cmd' = "noIds" \/ cmd = "noIds") =>
          todos' = todos /\ cmd' \in {"noIds", "idle"}]_vars

\* an empty id list was given while the store holds records
C8_Witness ==
  /\ cmd = "noIds"
  /\ ids = <<>>
  /\ todos # {}

C10_SequentialInOrder ==
  (cmd = "forEach" /\ token \in {NoToken, <<"1">>}) =>
    /\ Cardinality(InFlight) <= 1
    /\ \A i \in 2..Len(ids) : pc[i] # "queued" => pc[i - 1] = "done"

\* the third id of a default-concurrency run is being fetched
C10_Witness ==
  /\ cmd = "forEach"
  /\ token = NoToken
  /\ Len(ids) = 3
  /\ pc[3] = "fetching"
  /\ pc[1] = "done" /\ pc[2] = "done"

(***************************************************************************)
(* Properties of the decoding of a concurrency value.                      *)
(***************************************************************************)
Decoded == lastCall.op = "decode" /\ lastResult.tag # "none"

\* C11: for every positive integer n <= 10000, decoding the decimal string
\* of n yields the number n, and decoding the literal "unbounded" yields
\* "unbounded".
C11_DecimalStringsDecode ==
  Decoded =>
    /\ lastCall.input.n \in 1..MaxTested =>
         lastResult.value = Bounded(lastCall.input.n)
    /\ lastCall.input = Str(UnboundedToken) => lastResult.value = Unbounded

\* the string "10000" was decoded to the number 10000
C11_Witness ==
  /\ Decoded
  /\ lastCall.input = StrOf(MaxTested)
  /\ Len(lastCall.input.text) = 5
  /\ lastResult.tag = "ok"
  /\ lastResult.value = Bounded(MaxTested)

\* what the text of a claim calls a string encoding a positive integer:
\* digits that are not all zero, with at most a fraction of zeros, an
\* optional plus sign and surrounding blanks
EncodesPositiveInteger(text) ==
  LET t  == Trim(text)
      u  == IF t # <<>> /\ t[1] = "+" THEN Tail(t) ELSE t
      d  == DotPos(u)
      ip == IF d = 0 THEN u ELSE SubSeq(u, 1, d - 1)
      fp == IF d = 0 THEN <<>> ELSE SubSeq(u, d + 1, Len(u))
  IN /\ Len(ip) >= 1
     /\ AllDigits(ip)
     /\ AllDigits(fp)
     /\ ~AllZeros(ip)
     /\ AllZeros(fp)

\* C12: decoding rejects every input that is neither the exact literal
\* "unbounded" nor a string encoding a positive integer: "0", negative
\* integers, non-integers such as "1.5", "", " ", "Infinity", "NaN",
\* non-numeric strings and values that are no strings.
C12_EverythingElseRejected ==
  Decoded =>
    ((\/ lastCall.input.type # "string"
      \/ /\ lastCall.input.text # UnboundedToken
         /\ ~EncodesPositiveInteger(lastCall.input.text))
       => lastResult.value = Invalid)

(***************************************************************************)
(* Properties of the record store.                                         *)
(***************************************************************************)
\* the step is a call of operation op
Calls(op) == calls' = calls + 1 /\ lastCall'.op = op

\* the last call was operation op and the database did not fail it
Called(op) == lastCall.op = op /\ lastResult.cause # "SqlError"

\* a row without its id
Content(r) ==
  [user_id |-> r.user_id, title |-> r.title, completed |-> r.completed]

\* C13: create with an invalid title (empty or longer than 255 characters)
\* or a non-positive userId is rejected before any insert: it returns an
\* error and the store holds exactly the same records as before the call.
C13_InvalidCreateRejected ==
  [][(/\ Calls("createTodo")
      /\ \/ ~TodoTitle(lastCall'.data.title)
         \/ lastCall'.data.userId <= 0)
       => (lastResult'.tag # "ok" /\ todos' = todos)]_vars

\* C14: after any sequence of initialize, create, upsert, clear and sync
\* operations, every record in the store has a title of length between 1
\* and 255 and a positive integer id and userId.
C14_RecordsValid ==
  \A r \in todos : TodoTitle(r.title) /\ r.id > 0 /\ r.user_id > 0

C16_UpsertStoresTodo ==
  [][(Calls("saveTodo") /\ lastResult'.tag = "ok") =>
       LET t == lastCall'.todo
       IN /\ getTodoById(todos', t.id) = [tag |-> "ok", todo |-> t]
          /\ IF RowsWithId(todos, t.id) = {}
             THEN /\ Cardinality(todos') = Cardinality(todos) + 1
                  /\ todos' \ todos = RowsWithId(todos', t.id)
             ELSE /\ Cardinality(todos') = Cardinality(todos)
                  /\ todos \ RowsWithId(todos, t.id)
                       = todos' \ RowsWithId(todos', t.id)]_vars

\* C17: upsert is idempotent: upsert(t) followed by upsert(t) leaves the
\* same set of records as a single upsert(t), and both calls return a Todo
\* equal to t.
C17_UpsertIdempotent ==
  [][(/\ lastCall.op = "saveTodo"
      /\ lastResult.tag = "ok"
      /\ Calls("saveTodo")
      /\ lastCall' = lastCall
      /\ lastResult'.tag = "ok")
       => /\ todos' = todos
          /\ lastResult.todo = lastCall.todo
          /\ lastResult'.todo = lastCall.todo]_vars

\* C18: for valid input, create returns a Todo whose id was not the id of
\* any record present in the store before the call (records inserted by
\* upsert with ids of the caller's choice included), and a following
\* getById of that id returns a Todo equal to the returned one, carrying
\* the given userId, title and completed (false when omitted).
C18_CreateAssignsFreshId ==
  [][/\ (/\ Calls("createTodo")
         /\ lastResult'.cause # "SqlError"
         /\ TodoTitle(lastCall'.data.title)
         /\ lastCall'.data.userId > 0)
          => /\ lastResult'.tag = "ok"
             /\ RowsWithId(todos, lastResult'.todo.id) = {}
             /\ lastResult'.todo.userId = lastCall'.data.userId
             /\ lastResult'.todo.title = lastCall'.data.title
             /\ lastResult'.todo.completed =
                  CompletedField(lastCall'.data.completed = <<TRUE>>)
     /\ (/\ lastCall.op = "createTodo"
         /\ lastResult.tag = "ok"
         /\ Calls("getTodoById")
         /\ lastCall'.id = lastResult.todo.id
         /\ lastResult'.cause # "SqlError")
          => /\ lastResult'.tag = "ok"
             /\ lastResult'.todo = lastResult.todo]_vars

\* a Todo was upserted with id 7, create then returned id 8, and getById(8)
\* returned the created Todo
C18_Witness ==
  /\ Called("getTodoById")
  /\ lastCall.id = 8
  /\ lastResult.tag = "ok"
  /\ lastResult.todo.id = 8
  /\ lastResult.todo.userId = 1
  /\ lastResult.todo.title = TitleOfLength(1)
  /\ lastResult.todo.completed = "pending"
  /\ \E r \in todos : r.id = 7
  /\ seq = 8

\* C19: initialize() on an empty store yields exactly the 5 fixed sample
\* rows; calling it again any number of times, or on any non-empty store,
\* leaves the set of records unchanged.
C19_InitializeSeedsOnce ==
  [][(Calls("initializeDatabase") /\ lastResult'.tag = "ok") =>
       IF todos = {}
       THEN /\ Cardinality(todos') = Len(SampleRows)
            /\ {Content(r) : r \in todos'}
                 = {SampleRows[i] : i \in 1..Len(SampleRows)}
            /\ \A q, r \in todos' : q.id = r.id => q = r
       ELSE todos' = todos]_vars

\* the table was initialized, cleared and initialized again: it holds the
\* five sample rows, now with the ids 6 to 10
C19_Witness ==
  /\ Called("initializeDatabase")
  /\ lastResult.tag = "ok"
  /\ calls = 3
  /\ seq = 10
  /\ {r.id : r \in todos} = 6..10
  /\ {Content(r) : r \in todos} = {SampleRows[i] : i \in 1..5}

\* C20: after clear() succeeds, listAll() returns the empty sequence,
\* whatever sequence of initialize, create and upsert calls preceded it.
C20_ClearThenListEmpty ==
  /\ []((lastCall.op = "clearAllTodos" /\ lastResult.tag = "ok")
          => todos = {})
  /\ [][(/\ lastCall.op = "clearAllTodos"
         /\ lastResult.tag = "ok"
         /\ Calls("getAllTodos")
         /\ lastResult'.cause # "SqlError")
          => (lastResult'.tag = "ok" /\ lastResult'.list = <<>>)]_vars

\* rows were inserted, clear succeeded and the listing that followed was
\* empty
C20_Witness ==
  /\ Called("getAllTodos")
  /\ lastResult.tag = "ok"
  /\ lastResult.list = <<>>
  /\ seq >= 5
  /\ calls >= 3

(***************************************************************************)
(* Properties of the errors of DatabaseService.                            *)
(***************************************************************************)
\* C21: getTodoById(id) on an id that has no row fails with TodoNotFound
\* carrying exactly that id and not with DatabaseError; TodoNotFound comes
\* from no other operation, and every other failure of getTodoById,
\* getAllTodos, createTodo, clearAllTodos, saveTodo and initializeDatabase
\* is a DatabaseError.
C21_NotFoundOnlyFromLookup ==
  /\ (Called("getTodoById") /\ RowsWithId(todos, lastCall.id) = {}) =>
       lastResult = [NoResult EXCEPT !.tag = "TodoNotFound",
                                     !.id = lastCall.id]
  /\ lastResult.tag = "TodoNotFound" =>
       /\ lastCall.op = "getTodoById"
       /\ RowsWithId(todos, lastCall.id) = {}
  /\ (calls > 0 /\ lastResult.tag \notin {"ok", "TodoNotFound"}) =>
       lastResult.tag = "DatabaseError"

\* id 8 was looked up in a table that holds other rows
C21_Witness ==
  /\ lastCall.op = "getTodoById"
  /\ lastCall.id = 8
  /\ lastResult.tag = "TodoNotFound"
  /\ lastResult.id = 8
  /\ todos # {}

(***************************************************************************)
(* Properties of TodoService.getTodoById.                                  *)
(***************************************************************************)
\* C22 as stated: a transient failure (network error, 5xx response) is
\* always retried, after a wait of min(5000ms, 100ms * 2^attempt) for
\* attempt = 0, 1, 2, ..., so that the call ends only with a success or a
\* non-transient failure; a non-transient failure (4xx, malformed payload)
\* is never retried and ends the call with GetTodoByIdError for the id.
C22_RetriesUntilSettled ==
  [][(http.state = "request" /\ http' # http) =>
       /\ http'.status \in TransientFaults =>
            /\ http'.state = "wait"
            /\ http'.attempt = http.attempt + 1
            /\ http'.wait =
                 IF 100 * Power(2, http.attempt) < 5000
                 THEN 100 * Power(2, http.attempt) ELSE 5000
       /\ http'.status \notin TransientFaults =>
            /\ http'.state = "done"
            /\ (http'.status # "200" \/ ~TodoTitle(lastResult'.todo.title)) =>
                 lastResult' = FetchFailed(lastCall.id)]_vars

(***************************************************************************)
(* Properties of the rendered progress bar.                                *)
(***************************************************************************)
\* the bar of the chosen pair has been rendered
Rendered == lastCall.op = "createSyncProgressMessage" /\ out # <<>>

\* C23 as stated: for all integers 0 <= completed <= total, total > 0, the
\* bar has exactly 30 cells, round(30 * completed / total) of them filled
\* (round half up), followed by completed/total and the percentage
\* round(100 * completed / total); (0,10) gives 0 cells and 0%, (3,10) gives
\* 9 cells and 30%, (10,10) gives 30 cells and 100%.
C23_BarRounding ==
  Rendered =>
    LET msg == out[1].msg
    IN /\ msg.completed = completed /\ msg.total = total
       /\ msg.filledWidth + msg.emptyWidth = 30
       /\ msg.filledWidth = (2 * 30 * completed + total) \div (2 * total)
       /\ msg.percentage = (2 * 100 * completed + total) \div (2 * total)
       /\ (completed = 0 /\ total = 10) =>
            msg.filledWidth = 0 /\ msg.percentage = 0
       /\ (completed = 3 /\ total = 10) =>
            msg.filledWidth = 9 /\ msg.percentage = 30
       /\ (completed = 10 /\ total = 10) =>
            msg.filledWidth = 30 /\ msg.percentage = 100

\* C30 as stated: for all integers 0 <= completed <= total, total > 0, the
\* bar shows 30 filled cells, or the text 100%, only if completed == total.
C30_FullOnlyWhenComplete ==
  Rendered =>
    ((out[1].msg.filledWidth = 30 \/ out[1].msg.percentage = 100) =>
       completed = total)

(***************************************************************************)
(* Properties of what the sync command writes and how it ends.             *)
(***************************************************************************)
\* C24 as stated: the line terminator is written only by an updateProgress
\* called with completed == total, directly after the bar of that call, and
\* after it no progress bar of the run is written any more;
\* initializeProgress writes the (0, total) bar once, without terminator.
C24_NewlineEndsProgress ==
  cmd \in {"forEach", "succeeded", "failed"} =>
    /\ \A p \in 1..Len(out) :
         out[p].w = "newline" =>
           /\ p - 1 \in UpdateBars
           /\ out[p - 1].msg.completed = out[p - 1].msg.total
           /\ \A q \in (p + 1)..Len(out) : out[q].w # "display"
    /\ out[2] = Display(createSyncProgressMessage(0, total), FALSE)
    /\ \A p \in 1..Len(out) : (out[p].w = "display" /\ ~out[p].cr) => p = 2

\* C25 as stated: every failing command path ends with a short message for
\* the user written before the process ends.
C25_FailureHasMessage ==
  cmd \in {"rejected", "failed"} =>
    /\ out # <<>>
    /\ out[Len(out)].w = "log"
    /\ out[Len(out)].msg.kind \in
         {"ValidationError", "GetTodoByIdError", "DatabaseError"}

\* C26: once the fetch or the upsert of an item has failed, no id that has
\* not been started is started any more, the error that came first stays
\* the one reported, and the command ends in failure, after the siblings in
\* flight have been stopped.
C26_FailFast ==
  /\ [][(cmd = "forEach" /\ failure # NoError) =>
          /\ \A i \in Items :
               pc[i] = "queued" => pc'[i] = "queued" /\ fetchCalls'[i] = 0
          /\ failure' = failure
          /\ cmd' \in {"forEach", "failed"}]_vars
  /\ [](cmd = "failed" =>
          /\ failure # NoError
          /\ InFlight = {}
          /\ \E i \in Items : pc[i] = "failed")

\* a run with concurrency 2 over three ids failed: the sibling in flight was
\* interrupted and the third id was never started
C26_Witness ==
  /\ cmd = "failed"
  /\ concurrency = Bounded(2)
  /\ pc = <<"failed", "interrupted", "queued">>
  /\ fetchCalls[3] = 0
  /\ failure = GetTodoByIdError(ids[1])

\* the places of `out` that hold the success line
SuccessLines ==
  {p \in 1..Len(out) : out[p].w = "log" /\ out[p].msg.kind = "Successfully synced"}

\* C27: the success line "Successfully synced N todo(s)" is printed only
\* after every id of the list has been fetched and upserted successfully and
\* completed == total; it is not printed in a run where a fetch or an upsert
\* failed, nor for an empty id list.
C27_SuccessLineOnlyWhenAllSynced ==
  /\ SuccessLines # {} =>
       /\ cmd = "succeeded"
       /\ SuccessLines = {Len(out)}
       /\ out[Len(out)].msg.n = Len(ids)
       /\ ids # <<>>
       /\ failure = NoError
       /\ completed = total
       /\ \A i \in Items :
            pc[i] = "done" /\ fetchCalls[i] = 1 /\ upsertCalls[i] = 1
       /\ \A i \in Items : RowsWithId(todos, ids[i]) # {}
  /\ cmd = "succeeded" => SuccessLines # {}

\* three ids were synced with concurrency 2 and the line was printed
C27_Witness ==
  /\ cmd = "succeeded"
  /\ concurrency = Bounded(2)
  /\ Len(ids) = 3
  /\ out[Len(out)] = Log("Successfully synced", 3)
  /\ completed = 3

\* C28: if no fetch and no upsert fails, then for every non-empty id list
\* and every valid concurrency value (1, a number above 1 that is smaller or
\* larger than the length of the list, or "unbounded") the sync run
\* eventually ends with completed == total and the success line printed; no
\* id is left waiting forever.
C28_SyncTerminates ==
  /\ (cmd = "forEach") ~> (cmd = "succeeded" \/ failure # NoError)
  /\ [](cmd = "succeeded" =>
          /\ completed = total
          /\ out[Len(out)] = Log("Successfully synced", Len(ids))
          /\ \A i \in Items : pc[i] = "done")

\* a run of three ids with concurrency 2 ended well: the third id waited
\* for a free fiber and was synced
C28_Witness ==
  /\ cmd = "succeeded"
  /\ token = <<"2">>
  /\ Len(ids) = 3
  /\ completed = total
  /\ \A i \in Items : pc[i] = "done"

\* C29 as stated: saveTodo and sync never delete a record and leave
\* unchanged every stored record whose id is not the id of a Todo being
\* written; every record a sync run added or changed, also a run that fails
\* part-way, equals a Todo returned by a successful fetch of that run.
C29_WritesOnlyFetched ==
  [][cmd = "forEach" =>
       /\ \A r \in todos : RowsWithId(todos', r.id) # {}
       /\ \A r \in todos \ todos' :
            \E i \in Items : pc[i] = "saveWrite" /\ saveArg[i].id = r.id
       /\ \A r \in todos' \ todos :
            \E i \in Items :
              /\ pc[i] = "saveWrite"
              /\ apiTodo[i] # NoTodo
              /\ r = [id |-> apiTodo[i].id, user_id |-> apiTodo[i].userId,
                      title |-> apiTodo[i].title,
                      completed |-> apiTodo[i].completed]]_vars
====
